---------------------------- MODULE Spec2Model ----------------------------
(***************************************************************************)
(* Model of the remeshing programs of mesh-optimizer:                      *)
(*   - the PMP program (remesh_with_control and its main),                 *)
(*   - the adaptive_remesh program (adaptive_isotropic_remesh and main),   *)
(*   - the remesh command line tool (c++/cgal/remesh.cpp).                 *)
(* Lengths are counted in units of 1/Scale; a double is a whole number of  *)
(* units, a float keeps only FloatMant significant bits of it.             *)
(***************************************************************************)
EXTENDS Integers, Sequences, FiniteSets, TLC

\* ------------------------------------------------------------------ bounds
\* Units per 1.0 (the resolution of the modelled doubles).
Scale == 1000
\* Significant bits kept by a float (24 in the build, scaled down).
FloatMant == 5
\* Largest max_attempts handed to remesh_with_control by a direct caller.
MaxAttemptsArg == 5

\* ------------------------------------------------------------- arithmetic
Max(a, b) == IF a >= b THEN a ELSE b
Min(a, b) == IF a <= b THEN a ELSE b

\* The value of a non-finite double (inf, or the NaN of 0.0/0).
NonFinite == -1
IsFinite(x) == x # NonFinite

\* a / b in double arithmetic: the quotient rounded to the nearest unit,
\* ties to even.
DDiv(a, b) ==
    IF a = NonFinite THEN NonFinite
    ELSE LET q == a \div b
             r == a % b
         IN  IF 2 * r < b THEN q
             ELSE IF 2 * r > b THEN q + 1
             ELSE IF q % 2 = 0 THEN q ELSE q + 1

\* a * n in double arithmetic (exact on whole units).
DMul(a, n) == IF a = NonFinite THEN NonFinite ELSE a * n

RECURSIVE FloatStep(_)
\* The spacing of the floats around x: 1 below 2^FloatMant, doubling with
\* every further binary digit of x.
FloatStep(x) == IF x < 2 ^ FloatMant THEN 1 ELSE 2 * FloatStep(x \div 2)

\* The conversion double -> float of an initialisation such as
\* `float f = <double expression>`: round to FloatMant significant bits.
ToFloat(x) ==
    IF x = NonFinite THEN NonFinite
    ELSE DDiv(x, FloatStep(x)) * FloatStep(x)

\* f *= 0.5f on a float: exact while f is even, rounded to the nearest unit
\* (ties to even) once f has reached the smallest units.
FloatHalf(f) == IF f = NonFinite THEN NonFinite ELSE DDiv(f, 2)

RECURSIVE SqrtSearch(_, _, _)
\* floor(sqrt(n)) by bisection, lo * lo <= n < hi * hi.
SqrtSearch(n, lo, hi) ==
    IF hi - lo <= 1 THEN lo
    ELSE LET mid == (lo + hi) \div 2
         IN  IF mid * mid <= n THEN SqrtSearch(n, mid, hi)
             ELSE SqrtSearch(n, lo, mid)

\* std::sqrt on whole units: the root rounded down; sqrt(inf) = inf.
Sqrt(n) == IF n = NonFinite THEN NonFinite ELSE SqrtSearch(n, 0, 46341)

\* ------------------------------------------------------------------ meshes
\* A mesh: the position of every vertex, the faces as vertex sets, and the
\* names of the vertex properties attached to it.
Verts(m) == DOMAIN m.pos
EmptyMesh == [pos |-> [v \in {} |-> <<0, 0, 0>>], faces |-> {}, props |-> {}]

\* CGAL::is_empty
is_empty(m) == Verts(m) = {}
\* CGAL::is_triangle_mesh / SurfaceMesh::is_triangle_mesh: every face has
\* three vertices (true of a mesh without faces).
is_triangle_mesh(m) == \A f \in m.faces : Cardinality(f) = 3

EdgesOfFace(f) == {e \in SUBSET f : Cardinality(e) = 2}
Edges(m) == UNION {EdgesOfFace(f) : f \in m.faces}
FacesAt(m, e) == {f \in m.faces : e \subseteq f}
MinOf(S) == CHOOSE x \in S : \A y \in S : x <= y
MaxOf(S) == CHOOSE x \in S : \A y \in S : x >= y
EdgeKey(e) == MinOf(e) * 1024 + MaxOf(e)
FirstEdge(S) == CHOOSE e \in S : \A f \in S : EdgeKey(e) <= EdgeKey(f)

\* A detection that takes every edge with a face for a border edge.
border_edges_any(m) == {e \in Edges(m) : Cardinality(FacesAt(m, e)) >= 1}

\* PMP::border_halfedges(faces(mesh), mesh, out) through halfedge2edge: the
\* edges with exactly one incident face.
border_edges_of(m) == {e \in Edges(m) : Cardinality(FacesAt(m, e)) = 1}
BorderVerts(m) == UNION border_edges_of(m)
InteriorEdges(m) == Edges(m) \ border_edges_of(m)
InteriorVerts(m) == (UNION m.faces) \ BorderVerts(m)

SqLen(m, e) ==
    LET p == m.pos[MinOf(e)]
        q == m.pos[MaxOf(e)]
    IN  (p[1] - q[1]) * (p[1] - q[1]) + (p[2] - q[2]) * (p[2] - q[2])
        + (p[3] - q[3]) * (p[3] - q[3])
MidPoint(p, q) == [i \in 1..3 |-> DDiv(p[i] + q[i], 2)]
NewVertex(m) == IF Verts(m) = {} THEN 1 ELSE MaxOf(Verts(m)) + 1

\* Edge split: a new vertex at the midpoint, every incident face cut in two.
SplitEdge(m, e) ==
    LET a == MinOf(e)
        b == MaxOf(e)
        n == NewVertex(m)
    IN  [m EXCEPT
         !.pos = [v \in Verts(m) \cup {n} |->
                    IF v = n THEN MidPoint(m.pos[a], m.pos[b]) ELSE m.pos[v]],
         !.faces = (m.faces \ FacesAt(m, e)) \cup
                   UNION {{(f \ {b}) \cup {n}, (f \ {a}) \cup {n}} :
                          f \in FacesAt(m, e)}]

\* Edge collapse onto the vertex keep: the other endpoint disappears.
CollapseEdge(m, e, keep) ==
    LET gone == CHOOSE v \in e : v # keep
    IN  [m EXCEPT
         !.pos = [v \in Verts(m) \ {gone} |-> m.pos[v]],
         !.faces = {IF gone \in f THEN (f \ {gone}) \cup {keep} ELSE f :
                    f \in m.faces \ FacesAt(m, e)}]

\* A collapse the remesher accepts: it leaves a triangle mesh with as many
\* faces as the collapse removes none twice, and no edge with three faces.
CollapseOk(m, e, keep) ==
    LET r == CollapseEdge(m, e, keep)
    IN  /\ r.faces # {}
        /\ Cardinality(r.faces) = Cardinality(m.faces \ FacesAt(m, e))
        /\ \A f \in r.faces : Cardinality(f) = 3
        /\ \A x \in Edges(r) : Cardinality(FacesAt(r, x)) <= 2

\* Edge flip of an interior edge: the two incident triangles exchange their
\* diagonal.
FlipOk(m, e) ==
    /\ Cardinality(FacesAt(m, e)) = 2
    /\ (UNION FacesAt(m, e)) \ e \notin Edges(m)
    /\ Cardinality((UNION FacesAt(m, e)) \ e) = 2
FlipEdge(m, e) ==
    LET cd == (UNION FacesAt(m, e)) \ e
    IN  [m EXCEPT !.faces = (m.faces \ FacesAt(m, e)) \cup
                            {cd \cup {v} : v \in e}]

RECURSIVE SumPos(_, _, _)
SumPos(m, S, i) ==
    IF S = {} THEN 0
    ELSE LET v == MinOf(S) IN m.pos[v][i] + SumPos(m, S \ {v}, i)
Neighbours(m, v) == (UNION {f \in m.faces : v \in f}) \ {v}
\* Relaxation of one vertex: it moves to the centroid of its neighbours.
RelaxVertex(m, v) ==
    LET N == Neighbours(m, v)
    IN  [m EXCEPT !.pos[v] = [i \in 1..3 |-> DDiv(SumPos(m, N, i), Cardinality(N))]]

\* -------------------------------------------- the remeshing library calls
\* The edits one split/collapse/flip/relax iteration of the remesher may make
\* to m.  The remesher is a library: the model lets it make at most one edit
\* per iteration, on the first border edge, the first interior edge or the
\* first interior vertex.  Border vertices are never relaxed; a border edge
\* is split or collapsed only when the constraints are not protected; an
\* interior edge is collapsed onto its border endpoint if it has one, and not
\* at all if it has two.
SplitTargets(m, protect) ==
    (IF protect \/ border_edges_of(m) = {} THEN {}
     ELSE {FirstEdge(border_edges_of(m))})
    \cup (IF InteriorEdges(m) = {} THEN {} ELSE {FirstEdge(InteriorEdges(m))})
CollapseKeep(m, e) ==
    IF e \cap BorderVerts(m) = {} THEN MinOf(e) ELSE MinOf(e \cap BorderVerts(m))
CollapseTargets(m, protect) ==
    {e \in SplitTargets(m, protect) :
        /\ e \in border_edges_of(m) \/ Cardinality(e \cap BorderVerts(m)) < 2
        /\ CollapseOk(m, e, CollapseKeep(m, e))}
FlipTargets(m) ==
    IF InteriorEdges(m) = {} THEN {}
    ELSE {e \in {FirstEdge(InteriorEdges(m))} : FlipOk(m, e)}
RelaxTargets(m) ==
    IF InteriorVerts(m) = {} THEN {} ELSE {MinOf(InteriorVerts(m))}
RemeshIteration(m, protect) ==
    {m}
    \cup {SplitEdge(m, e) : e \in SplitTargets(m, protect)}
    \cup {CollapseEdge(m, e, CollapseKeep(m, e)) : e \in CollapseTargets(m, protect)}
    \cup {FlipEdge(m, e) : e \in FlipTargets(m)}
    \cup {RelaxVertex(m, v) : v \in RelaxTargets(m)}

RECURSIVE split_long_edges_once(_, _, _)
\* A split that cuts every overlong listed edge once and does not look at
\* its halves again.
split_long_edges_once(long, max_length, m) ==
    LET over == {e \in long : max_length # NonFinite
                              /\ SqLen(m, e) > max_length * max_length}
    IN  IF over = {} THEN m
        ELSE LET e == FirstEdge(over)
             IN  split_long_edges_once(long \ {e}, max_length, SplitEdge(m, e))

RECURSIVE split_long_edges(_, _, _)
\* PMP::split_long_edges(edges, max_length, mesh): the longest listed edge
\* longer than max_length is split at its midpoint and its two halves are
\* listed in its place, until no listed edge is longer than max_length.
split_long_edges(long, max_length, m) ==
    LET over == {e \in long : max_length # NonFinite
                              /\ SqLen(m, e) > max_length * max_length}
    IN  IF over = {} THEN m
        ELSE LET top == {e \in over : \A f \in over : SqLen(m, e) >= SqLen(m, f)}
                 e == FirstEdge(top)
                 n == NewVertex(m)
             IN  split_long_edges((long \ {e}) \cup {{v, n} : v \in e},
                                  max_length, SplitEdge(m, e))

\* --------------------------------------------------------- target length
Pi == DDiv(355 * Scale, 113)
Sqrt3 == Sqrt(3 * Scale * Scale)
\* 1e-8 and 1e-10 in units.
Eps8 == DDiv(Scale, 100000000)
Eps10 == DDiv(Scale, 1000000000)

\* An edge length with the density multiplied in instead of divided out.
edge_length_from_density_inverted(density, radius) ==
    IF radius = NonFinite THEN NonFinite
    ELSE Sqrt(DDiv(4 * (DDiv(4 * Pi * radius, 16 * Scale) * DDiv(radius * density, Scale)),
                   Sqrt3) * Scale)

\* edge_length_from_density: n = 16 density, area = 4 pi r^2 / n,
\* edge = sqrt(4 area / sqrt 3).  The quotient by n is taken before the
\* second product by the radius, and the product by Scale after the
\* quotient by sqrt 3, to stay within 32-bit integers.
edge_length_from_density(density, radius) ==
    IF radius = NonFinite THEN NonFinite
    ELSE LET n_points == 16 * density
             area_per_point == DDiv(4 * Pi * radius, n_points) * radius
         IN  Sqrt(DDiv(4 * area_per_point, Sqrt3) * Scale)

RECURSIVE SumOf(_, _)
SumOf(k, S) == IF S = {} THEN 0 ELSE LET v == MinOf(S) IN k[v] + SumOf(k, S \ {v})

Extent(m, i) ==
    MaxOf({m.pos[v][i] : v \in Verts(m)}) - MinOf({m.pos[v][i] : v \in Verts(m)})
\* The length of the bounding-box diagonal; the box of a mesh without
\* vertices keeps its initial, inverted limits and the length is infinite.
compute_bbox_diagonal(m) ==
    IF Verts(m) = {} THEN NonFinite
    ELSE Sqrt(Extent(m, 1) * Extent(m, 1) + Extent(m, 2) * Extent(m, 2)
              + Extent(m, 3) * Extent(m, 3))

RECURSIVE SumLen(_, _)
\* total_length += PMP::edge_length(e, mesh) over the edges S.
SumLen(m, S) ==
    IF S = {} THEN 0
    ELSE LET e == FirstEdge(S) IN Sqrt(SqLen(m, e)) + SumLen(m, S \ {e})

\* A mean edge length that answers the scale factor for a mesh without edges.
compute_target_edge_length_unguarded(m, scale_factor) ==
    IF Edges(m) = {} THEN scale_factor
    ELSE DDiv(DDiv(SumLen(m, Edges(m)), Cardinality(Edges(m))) * scale_factor, Scale)

\* compute_target_edge_length (lines 377-391): 0.0 for a mesh without edges,
\* the average edge length times scale_factor otherwise.
compute_target_edge_length(m, scale_factor) ==
    LET total_length == SumLen(m, Edges(m))
        edge_count == Cardinality(Edges(m))
    IN  IF edge_count = 0 THEN 0
        ELSE DDiv(DDiv(total_length, edge_count) * scale_factor, Scale)

\* compute_target_length of the PMP program, on the absolute values k of the
\* "v:curv" property: every finite k is summed and counted (lines 149-157),
\* the average of no sample is 0.0/0 = NaN (line 159), and a NaN average is
\* not > 1e-8 (line 160).
accepted_pmp(k) == {v \in DOMAIN k : IsFinite(k[v])}
avg_k_pmp(k) ==
    LET total_k == SumOf(k, accepted_pmp(k))
        count == Cardinality(accepted_pmp(k))
    IN  IF count = 0 THEN NonFinite ELSE DDiv(total_k, count)
radius_pmp(k) ==
    IF avg_k_pmp(k) # NonFinite /\ avg_k_pmp(k) > Eps8
    THEN DDiv(Scale * Scale, avg_k_pmp(k)) ELSE Scale
compute_target_length(k) == edge_length_from_density(2 * Scale, radius_pmp(k))

\* A fallback radius of 1.0 whatever the bounding box.
radius_cgal_unit(k, diag_length) ==
    LET S == {v \in DOMAIN k : IsFinite(k[v]) /\ k[v] > Eps10}
    IN  IF S # {} /\ DDiv(SumOf(k, S), Cardinality(S)) > Eps8
        THEN DDiv(Scale * Scale, DDiv(SumOf(k, S), Cardinality(S))) ELSE Scale

\* compute_target_length of the adaptive_remesh program, on the values k of
\* estimate_mean_curvature and the bounding-box diagonal (lines 534-548).
accepted_cgal(k) == {v \in DOMAIN k : IsFinite(k[v]) /\ k[v] > Eps10}
avg_k_cgal(k) ==
    LET total_k == SumOf(k, accepted_cgal(k))
        count == Cardinality(accepted_cgal(k))
    IN  IF count > 0 THEN DDiv(total_k, count) ELSE Eps8
radius_cgal(k, diag_length) ==
    IF avg_k_cgal(k) > Eps8 THEN DDiv(Scale * Scale, avg_k_cgal(k))
    ELSE DDiv(diag_length, 10)
compute_target_length_cgal(k, diag_length) ==
    edge_length_from_density(2 * Scale, radius_cgal(k, diag_length))

\* The curvature magnitudes the estimators may return on the vertices V:
\* none finite, all zero, all 2.0, or 0.5 on the odd vertices only.
CurvatureProfiles == {"nonfinite", "flat", "round", "mixed"}
Curvature(profile, V) ==
    [v \in V |->
        CASE profile = "nonfinite" -> NonFinite
          [] profile = "flat" -> 0
          [] profile = "round" -> 2 * Scale
          [] OTHER -> IF v % 2 = 1 THEN Scale \div 2 ELSE NonFinite]

\* ----------------------------------------------------------- input meshes
Side == 4 * Scale
MeshOf(P, F) == [pos |-> P, faces |-> F, props |-> {}]
\* A tetrahedron with a small triangular hole (vertices 5, 6, 7) in its
\* face 1 2 3: three border edges, every other edge interior.
OpenTetra ==
    MeshOf(<<<<0, 0, 0>>, <<Side, 0, 0>>, <<0, Side, 0>>, <<0, 0, Side>>,
             <<Side \div 4, Side \div 4, 0>>,
             <<Side \div 4 + Side \div 10, Side \div 4, 0>>,
             <<Side \div 4, Side \div 4 + Side \div 10, 0>>>>,
           {{1, 2, 6}, {1, 6, 5}, {2, 3, 7}, {2, 7, 6}, {3, 1, 5}, {3, 5, 7},
            {1, 2, 4}, {1, 3, 4}, {2, 3, 4}})
\* A tetrahedron: closed, every edge has two faces.
ClosedTetra ==
    MeshOf(<<<<0, 0, 0>>, <<Side, 0, 0>>, <<0, Side, 0>>, <<0, 0, Side>>>>,
           {{1, 2, 3}, {1, 2, 4}, {1, 3, 4}, {2, 3, 4}})
\* A square as one four-sided face: not a triangle mesh.
QuadFace ==
    MeshOf(<<<<0, 0, 0>>, <<Side, 0, 0>>, <<Side, Side, 0>>, <<0, Side, 0>>>>,
           {{1, 2, 3, 4}})
FileMeshes == {EmptyMesh, QuadFace, OpenTetra, ClosedTetra}
TriangleMeshes == {OpenTetra, ClosedTetra}

\* ------------------------------------------------- command line arguments
\* An argument is a sequence of characters; std::stod and std::stoi read its
\* longest numeric prefix and throw std::invalid_argument when there is none.
\* (The arguments of the model carry no sign and no exponent.)
InvalidArgument == -2
DigitChars == <<"0", "1", "2", "3", "4", "5", "6", "7", "8", "9">>
IsDigit(c) == \E d \in 1..10 : DigitChars[d] = c
DigitVal(c) == (CHOOSE d \in 1..10 : DigitChars[d] = c) - 1
RECURSIVE DigitsEnd(_, _)
\* The index of the first character at or after i that is no digit.
DigitsEnd(s, i) ==
    IF i > Len(s) \/ ~IsDigit(s[i]) THEN i ELSE DigitsEnd(s, i + 1)
RECURSIVE DigitsValue(_, _, _)
\* The decimal value of s[i .. j-1].
DigitsValue(s, i, j) ==
    IF j <= i THEN 0 ELSE 10 * DigitsValue(s, i, j - 1) + DigitVal(s[j - 1])
stod(s) ==
    LET e1 == DigitsEnd(s, 1)
        dot == e1 <= Len(s) /\ s[e1] = "."
        e2 == IF dot THEN DigitsEnd(s, e1 + 1) ELSE e1
        nfrac == IF dot THEN e2 - e1 - 1 ELSE 0
    IN  IF (e1 - 1) + nfrac = 0 THEN InvalidArgument
        ELSE DigitsValue(s, 1, e1) * Scale
             + (IF nfrac = 0 THEN 0
                ELSE DDiv(DigitsValue(s, e1 + 1, e2) * Scale, 10 ^ nfrac))
stoi(s) ==
    LET e1 == DigitsEnd(s, 1)
    IN  IF e1 = 1 THEN InvalidArgument ELSE DigitsValue(s, 1, e1)

\* The optional arguments tolerance, edge_min, edge_max, iterations.
ArgVectors ==
    { << <<"0", ".", "5">>, <<"0", ".", "2">>, <<"3">>, <<"2">> >>,
      << <<"2", "x">>, <<"1">>, <<"5">>, <<"1", ".", "9">> >>,
      << <<"x">>, <<"1">>, <<"3">>, <<"2">> >>,
      << <<"1">>, <<"1">>, <<"y">>, <<"2">> >> }

\* ---------------------------------------------------------------- state
VARIABLES
    prog,            \* the program (or function) that runs
    pc,              \* its position
    argc, argv,      \* argv holds argv[3], argv[4], ... of the command line
    max_attempts,    \* parameter of remesh_with_control
    original_mesh, working_mesh, mesh,
    ctl,             \* locals of remesh_with_control
    ad,              \* locals of the adaptive_remesh main and its remesh call
    cli,             \* locals of the remesh command line main
    iter,            \* iterations done by the running remeshing call
    output_file,     \* the meshes written to the output path, in order
    exit_status,     \* "running", "0", "1" or "SIGABRT" (uncaught exception)
    console,         \* what was printed, in order
    hist,            \* one record per remeshing attempt started
    input,           \* what reading the input file gave
    probe,           \* a direct call of one function: its arguments and result
    measured_mesh,   \* the mesh of the last distance measurement
    border_at_start  \* the border edges when the current remeshing started

vars == <<prog, pc, probe, input, argc, argv, max_attempts, original_mesh, working_mesh,
          mesh, ctl, ad, cli, iter, output_file, exit_status, console, hist,
          measured_mesh, border_at_start>>

Programs == {"pmp_main", "remesh_with_control", "adaptive_main", "cli_main"}
Unmeasured == -3

\* argv[k] of the command line, k >= 3.
Arg(k) == argv[k - 2]

Say(stream, text, value) ==
    Append(console, [stream |-> stream, text |-> text, value |-> value])

\* The border edges of m with the positions of their endpoints.
Guarded(m) ==
    {[edge |-> e, ends |-> {m.pos[v] : v \in e}] : e \in border_edges_of(m)}

SameSurface(a, b) == a.pos = b.pos /\ a.faces = b.faces

\* The directed distances a measurement may return between two different
\* surfaces, for target length T: the two roundings of T/2, and just above
\* them.
DistanceSamples(T) ==
    IF T = NonFinite THEN {0}
    ELSE {ToFloat(DDiv(T, 2)), DDiv(T, 2), ToFloat(DDiv(T, 2)) + 1,
          DDiv(T, 2) + 1}
\* Two copies of the same surface are at distance zero.
DirectedDistances(a, b, T) ==
    IF SameSurface(a, b) THEN {0} ELSE DistanceSamples(T)

\* No function is called directly.
ProbeIdle == [fn |-> "none", args |-> << >>, out |-> << >>]

CtlIdle ==
    [target_edge_length |-> 0, approximation_error |-> 0, dist_tolerance |-> 0,
     min_edge_length |-> 0, max_edge_length |-> 0, iterations |-> 0,
     use_projection |-> FALSE, attempt |-> 0, hausdorff |-> 0,
     result |-> "pending"]
AdIdle ==
    [target_length |-> 0, tol |-> 0, hausdorff_dist |-> 0, min_edge |-> 0,
     max_edge |-> 0, calls |-> 0]
CliIdle ==
    [tolerance |-> 0, nb_iterations |-> 0, bbox_diag |-> 0, edge_min |-> 0,
     edge_max |-> 0, border_edges |-> {}, has_borders |-> FALSE]

Init ==
    /\ prog \in Programs
    /\ pc = IF prog = "remesh_with_control" THEN "ctl_entry" ELSE "start"
    /\ argc \in (CASE prog = "cli_main" -> 2..7
                   [] prog = "remesh_with_control" -> {0}
                   [] OTHER -> {2, 3})
    /\ argv \in (IF prog = "cli_main"
                 THEN {SubSeq(v, 1, Max(0, argc - 3)) : v \in ArgVectors}
                 ELSE {<< >>})
    /\ max_attempts \in (IF prog = "remesh_with_control"
                         THEN (-1)..MaxAttemptsArg ELSE {0})
    /\ original_mesh \in (IF prog = "remesh_with_control"
                          THEN TriangleMeshes ELSE {EmptyMesh})
    /\ working_mesh \in (IF prog = "remesh_with_control"
                         THEN {EmptyMesh, QuadFace} ELSE {EmptyMesh})
    /\ mesh = EmptyMesh
    /\ ctl = CtlIdle
    /\ ad = AdIdle
    /\ cli = CliIdle
    /\ iter = 0
    /\ output_file = << >>
    /\ exit_status = "running"
    /\ console = << >>
    /\ hist = << >>
    /\ input = [state |-> "none", mesh |-> EmptyMesh]
    /\ probe = ProbeIdle
    /\ measured_mesh = EmptyMesh
    /\ border_at_start = {}

\* -------------------------------------------------- remesh_with_control
\* hausdorff_distance: the larger of the two directed distances.
hausdorff_distance(dist12, dist21) == Max(dist12, dist21)

\* Where remesh_with_control returns to.
CtlReturn == IF prog = "pmp_main" THEN "write" ELSE "done"

\* A loop that tests max_attempts only after its first attempt.
CtlLoopHoldsAfterFirst == ctl.attempt = 0 \/ ctl.attempt < max_attempts

\* A loop test that lets one attempt too many through.
CtlLoopHoldsInclusive == ctl.attempt <= max_attempts

\* The loop condition of remesh_with_control.
CtlLoopHolds == ctl.attempt < max_attempts

\* A retry that leaves the upper edge bound as it is.
TightenMaxKept(c) == c.max_edge_length

\* A retry that leaves the lower edge bound as it is.
TightenMinKept(c) == c.min_edge_length

\* The edge bounds after a failed attempt: both are halved.
TightenMin(c) == FloatHalf(c.min_edge_length)
TightenMax(c) == FloatHalf(c.max_edge_length)

\* A lower edge bound as adaptive_isotropic_remesh takes it from the target.
InitialMinEdgeFiftieth(T) == ToFloat(DDiv(T, 50))

\* Lines 263-264: the first edge bounds of remesh_with_control, floats.
InitialMinEdge(T) == ToFloat(DDiv(T, 20))
InitialMaxEdge(T) == ToFloat(DMul(T, 2))

\* Lines 260-267: the parameters derived from the target length; the
\* curvature call attaches the property "v:curv" to the original mesh.
CtlInit ==
    /\ pc = "ctl_entry"
    /\ \E profile \in CurvatureProfiles :
         LET T == compute_target_length(Curvature(profile, Verts(original_mesh)))
         IN  ctl' = [target_edge_length |-> T,
                     approximation_error |-> DDiv(T, 30),
                     dist_tolerance |-> ToFloat(DDiv(T, 2)),
                     min_edge_length |-> InitialMinEdge(T),
                     max_edge_length |-> InitialMaxEdge(T),
                     iterations |-> 2,
                     use_projection |-> TRUE,
                     attempt |-> 0,
                     hausdorff |-> 0,
                     result |-> "pending"]
    /\ original_mesh' = [original_mesh EXCEPT !.props = @ \cup {"v:curv"}]
    /\ pc' = "ctl_loop"
    /\ UNCHANGED <<prog, probe, input, argc, argv, max_attempts, working_mesh, mesh, ad, cli,
                   iter, output_file, exit_status, console, hist,
                   measured_mesh, border_at_start>>

\* A remeshing that also stops as soon as an iteration leaves the mesh as
\* it found it.
RemeshingDoneOnFixpoint(n, nb_iterations, before, after) ==
    n >= nb_iterations \/ after = before

\* The remeshing calls return when the iterations asked for have run: the
\* n-th iteration is the last one iff n reaches number_of_iterations,
\* whatever the iteration made of the mesh.
RemeshingDone(n, nb_iterations, before, after) == n >= nb_iterations

\* number_of_relaxation_steps of the two CGAL calls, number_of_iterations
\* of adaptive_isotropic_remesh.
CliRelaxationSteps == 3
AdRelaxationSteps == 4
AdIterations == 4

\* An attempt that starts from whatever the working mesh holds.
CtlStartMeshKept == working_mesh

\* The mesh an attempt of remesh_with_control starts from (line 271).
CtlStartMesh == original_mesh

\* Lines 269-271: the loop test holds, the working mesh is reset.
CtlBeginAttempt ==
    /\ pc = "ctl_loop"
    /\ CtlLoopHolds
    /\ working_mesh' = CtlStartMesh
    /\ iter' = 0
    /\ hist' = Append(hist, [attempt |-> ctl.attempt,
                             edge_min |-> ctl.min_edge_length,
                             edge_max |-> ctl.max_edge_length,
                             tol |-> ctl.approximation_error,
                             iterations |-> 0,
                             dist |-> Unmeasured])
    /\ measured_mesh' = EmptyMesh
    /\ border_at_start' = Guarded(working_mesh')
    /\ pc' = "ctl_remesh"
    /\ UNCHANGED <<prog, probe, input, argc, argv, max_attempts, original_mesh, mesh, ctl, ad,
                   cli, output_file, exit_status, console>>

\* The last record of hist with the iterations and the distance set.
Logged(n, d) ==
    [hist EXCEPT ![Len(hist)].iterations = n, ![Len(hist)].dist = d]

\* Line 273, perform_remesh -> pmp::adaptive_remeshing: it throws
\* InvalidInputException on a mesh that is no triangle mesh (nobody catches
\* it), and otherwise runs `iterations` iterations without protection of
\* the border.
CtlRemesh ==
    /\ pc = "ctl_remesh"
    /\ IF ~is_triangle_mesh(working_mesh)
       THEN /\ exit_status' = "SIGABRT"
            /\ pc' = "done"
            /\ UNCHANGED <<working_mesh, iter, hist>>
       ELSE /\ \E m2 \in RemeshIteration(working_mesh, FALSE) : working_mesh' = m2
            /\ iter' = iter + 1
            /\ hist' = Logged(iter + 1, Unmeasured)
            /\ pc' = IF RemeshingDone(iter + 1, ctl.iterations, working_mesh, working_mesh')
                     THEN "ctl_measure" ELSE "ctl_remesh"
            /\ UNCHANGED exit_status
    /\ UNCHANGED <<prog, probe, input, argc, argv, max_attempts, original_mesh, mesh, ctl, ad,
                   cli, output_file, console, measured_mesh, border_at_start>>

\* Lines 275-277: the distance between the original and the working mesh.
CtlMeasure ==
    /\ pc = "ctl_measure"
    /\ \E dist12, dist21 \in
            DirectedDistances(original_mesh, working_mesh, ctl.target_edge_length) :
         /\ ctl' = [ctl EXCEPT !.hausdorff = hausdorff_distance(dist12, dist21)]
         /\ hist' = Logged(iter, hausdorff_distance(dist12, dist21))
         /\ console' = Say("cout", "--> hausdorff = ",
                           hausdorff_distance(dist12, dist21))
    /\ measured_mesh' = working_mesh
    /\ pc' = "ctl_decide"
    /\ UNCHANGED <<prog, probe, input, argc, argv, max_attempts, original_mesh, working_mesh,
                   mesh, ad, cli, iter, output_file, exit_status,
                   border_at_start>>

\* A test of the distance that rejects a distance equal to the tolerance.
CtlAcceptsStrict(c) == c.hausdorff < c.dist_tolerance

\* The test of line 279.
CtlAccepts(c) == c.hausdorff <= c.dist_tolerance

\* A success after which the loop goes on.
CtlAfterSuccessLoops == "ctl_loop"

\* Line 281: return true leaves the loop and the function.
CtlAfterSuccess == CtlReturn

\* Lines 279-285: success, or both edge bounds halved for the next attempt.
CtlDecide ==
    /\ pc = "ctl_decide"
    /\ IF CtlAccepts(ctl)
       THEN /\ ctl' = [ctl EXCEPT !.result = "true"]
            /\ pc' = CtlAfterSuccess
       ELSE /\ ctl' = [ctl EXCEPT !.min_edge_length = TightenMin(ctl),
                                  !.max_edge_length = TightenMax(ctl),
                                  !.attempt = @ + 1]
            /\ pc' = "ctl_loop"
    /\ UNCHANGED <<prog, probe, input, argc, argv, max_attempts, original_mesh, working_mesh,
                   mesh, ad, cli, iter, output_file, exit_status, console, hist,
                   measured_mesh, border_at_start>>

\* Lines 269 and 288: the loop test fails, all attempts failed.
CtlExhausted ==
    /\ pc = "ctl_loop"
    /\ ~CtlLoopHolds
    /\ ctl' = [ctl EXCEPT !.result = "false"]
    /\ pc' = CtlReturn
    /\ UNCHANGED <<prog, probe, input, argc, argv, max_attempts, original_mesh, working_mesh,
                   mesh, ad, cli, iter, output_file, exit_status, console, hist,
                   measured_mesh, border_at_start>>

\* ------------------------------------------------- main of the PMP program
\* Lines 313-320.
PmpMain ==
    /\ pc = "start"
    /\ prog = "pmp_main"
    /\ IF argc < 3
       THEN /\ console' = Say("cerr", "Usage: ", 0)
            /\ exit_status' = "1"
            /\ pc' = "done"
       ELSE /\ pc' = "read"
            /\ UNCHANGED <<console, exit_status>>
    /\ UNCHANGED <<prog, probe, input, argc, argv, max_attempts, original_mesh, working_mesh,
                   mesh, ctl, ad, cli, iter, output_file, hist, measured_mesh,
                   border_at_start>>

\* Lines 322-328: pmp::read throws IOException on a file it cannot read,
\* and reads any polygon mesh, empty or not, otherwise.
PmpRead ==
    /\ pc = "read"
    /\ prog = "pmp_main"
    /\ \E readable \in BOOLEAN :
         IF ~readable
         THEN /\ input' = [state |-> "unreadable", mesh |-> EmptyMesh]
              /\ console' = Say("cerr", "Failed to read mesh: ", 0)
              /\ exit_status' = "1"
              /\ pc' = "done"
              /\ UNCHANGED original_mesh
         ELSE /\ \E m \in FileMeshes :
                   /\ input' = [state |-> "read", mesh |-> m]
                   /\ original_mesh' = m
              /\ pc' = "call"
              /\ UNCHANGED <<console, exit_status>>
    /\ UNCHANGED <<prog, probe, argc, argv, max_attempts, working_mesh, mesh, ctl, ad,
                   cli, iter, output_file, hist, measured_mesh, border_at_start>>

\* Line 337: remesh_with_control(working_mesh, original_mesh, 3); the value
\* it returns is not used.
PmpCall ==
    /\ pc = "call"
    /\ prog = "pmp_main"
    /\ max_attempts' = 3
    /\ pc' = "ctl_entry"
    /\ UNCHANGED <<prog, probe, input, argc, argv, original_mesh, working_mesh, mesh, ctl, ad,
                   cli, iter, output_file, exit_status, console, hist,
                   measured_mesh, border_at_start>>

\* A write of the mesh that was read.
PmpWrittenOriginal == original_mesh

\* Line 339: the mesh the PMP program writes.
PmpWritten == working_mesh

\* Lines 339-342: pmp::write throws IOException when it cannot write, and
\* nobody catches it.
PmpWrite ==
    /\ pc = "write"
    /\ prog = "pmp_main"
    /\ \E writable \in BOOLEAN :
         IF writable
         THEN /\ output_file' = Append(output_file, PmpWritten)
              /\ console' = Say("cout", "----> Mesh processed and saved to ", 0)
              /\ exit_status' = "0"
         ELSE /\ exit_status' = "SIGABRT"
              /\ UNCHANGED <<output_file, console>>
    /\ pc' = "done"
    /\ UNCHANGED <<prog, probe, input, argc, argv, max_attempts, original_mesh, working_mesh,
                   mesh, ctl, ad, cli, iter, hist, measured_mesh,
                   border_at_start>>

\* ------------------------------------------ the adaptive_remesh program
\* Lines 612-618.
AdMain ==
    /\ pc = "start"
    /\ prog = "adaptive_main"
    /\ IF argc < 3
       THEN /\ console' = Say("cerr", "Usage: ", 0)
            /\ exit_status' = "1"
            /\ pc' = "done"
       ELSE /\ pc' = "read"
            /\ UNCHANGED <<console, exit_status>>
    /\ UNCHANGED <<prog, probe, input, argc, argv, max_attempts, original_mesh, working_mesh,
                   mesh, ctl, ad, cli, iter, output_file, hist, measured_mesh,
                   border_at_start>>

\* The input check of line 621-622.
AdInputOk(readable, m) == readable /\ ~is_empty(m) /\ is_triangle_mesh(m)

\* Lines 620-628.
AdRead ==
    /\ pc = "read"
    /\ prog = "adaptive_main"
    /\ \E readable \in BOOLEAN, m \in FileMeshes :
         /\ input' = IF readable THEN [state |-> "read", mesh |-> m]
                      ELSE [state |-> "unreadable", mesh |-> EmptyMesh]
         /\ IF ~AdInputOk(readable, m)
            THEN /\ console' = Say("cerr", "Error: file is not a valid triangle mesh", 0)
                 /\ exit_status' = "1"
                 /\ pc' = "done"
                 /\ UNCHANGED mesh
            ELSE /\ mesh' = m
                 /\ console' = Say("cout", "Mesh loaded", 0)
                 /\ pc' = "ad_setup"
                 /\ UNCHANGED exit_status
    /\ UNCHANGED <<prog, probe, argc, argv, max_attempts, original_mesh, working_mesh,
                   ctl, ad, cli, iter, output_file, hist, measured_mesh,
                   border_at_start>>

\* Lines 630-636.
AdSetup ==
    /\ pc = "ad_setup"
    /\ original_mesh' = mesh
    /\ \E profile \in CurvatureProfiles :
         LET T == compute_target_length_cgal(Curvature(profile, Verts(mesh)),
                                             compute_bbox_diagonal(mesh))
         IN  /\ ad' = [ad EXCEPT !.target_length = T,
                                 !.tol = DDiv(T, 30),
                                 !.hausdorff_dist = 0]
             /\ console' = Say("cout", "Average edge length: ", T)
    /\ pc' = "ad_remesh_begin"
    /\ UNCHANGED <<prog, probe, input, argc, argv, max_attempts, working_mesh, mesh, ctl, cli,
                   iter, output_file, exit_status, hist, measured_mesh,
                   border_at_start>>

\* Lines 568-575 of adaptive_isotropic_remesh: the edge bounds and the
\* sizing field of this call.
AdRemeshBegin ==
    /\ pc = "ad_remesh_begin"
    /\ ad' = [ad EXCEPT !.min_edge = DDiv(ad.target_length, 50),
                        !.max_edge = DMul(ad.target_length, 5),
                        !.calls = @ + 1]
    /\ iter' = 0
    /\ hist' = Append(hist, [attempt |-> ad.calls,
                             edge_min |-> DDiv(ad.target_length, 50),
                             edge_max |-> DMul(ad.target_length, 5),
                             tol |-> ad.tol,
                             relax_steps |-> AdRelaxationSteps,
                             iterations |-> 0,
                             dist |-> Unmeasured])
    /\ measured_mesh' = EmptyMesh
    /\ border_at_start' = Guarded(mesh)
    /\ pc' = "ad_remesh"
    /\ UNCHANGED <<prog, probe, input, argc, argv, max_attempts, original_mesh, working_mesh,
                   mesh, ctl, cli, output_file, exit_status, console>>

\* Lines 577-583: four iterations, no protection of constraints asked.
AdRemesh ==
    /\ pc = "ad_remesh"
    /\ \E m2 \in RemeshIteration(mesh, FALSE) : mesh' = m2
    /\ iter' = iter + 1
    /\ hist' = Logged(iter + 1, Unmeasured)
    /\ pc' = IF RemeshingDone(iter + 1, AdIterations, mesh, mesh')
             THEN "ad_measure" ELSE "ad_remesh"
    /\ UNCHANGED <<prog, probe, input, argc, argv, max_attempts, original_mesh, working_mesh,
                   ctl, ad, cli, output_file, exit_status, console,
                   measured_mesh, border_at_start>>

\* The distance adaptive_isotropic_remesh returns: the directed distance
\* from the original to the remeshed mesh.
adaptive_distance(dist12, dist21) == dist12

\* Lines 585-595; the call returns to line 637 or to line 643.
AdMeasure ==
    /\ pc = "ad_measure"
    /\ \E dist12, dist21 \in DirectedDistances(original_mesh, mesh, ad.target_length) :
         /\ ad' = [ad EXCEPT !.hausdorff_dist = adaptive_distance(dist12, dist21)]
         /\ hist' = Logged(iter, adaptive_distance(dist12, dist21))
         /\ console' = Say("cout", "Approximate Hausdorff distance: ",
                           adaptive_distance(dist12, dist21))
    /\ measured_mesh' = mesh
    /\ pc' = IF ad.calls = 1 THEN "ad_check" ELSE "write"
    /\ UNCHANGED <<prog, probe, input, argc, argv, max_attempts, original_mesh, working_mesh,
                   mesh, ctl, cli, iter, output_file, exit_status,
                   border_at_start>>

\* The test of line 639.
AdRetries(a) == a.hausdorff_dist > DDiv(a.target_length, 2)

\* Lines 639-642: one retry from the original with the tolerance halved.
AdCheck ==
    /\ pc = "ad_check"
    /\ IF AdRetries(ad)
       THEN /\ ad' = [ad EXCEPT !.tol = DDiv(ad.tol, 2)]
            /\ mesh' = original_mesh
            /\ console' = Say("cout", "Retrying with tighter tolerance: ",
                              DDiv(ad.tol, 2))
            /\ pc' = "ad_remesh_begin"
       ELSE /\ pc' = "write"
            /\ UNCHANGED <<ad, mesh, console>>
    /\ UNCHANGED <<prog, probe, input, argc, argv, max_attempts, original_mesh, working_mesh,
                   ctl, cli, iter, output_file, exit_status, hist,
                   measured_mesh, border_at_start>>

\* Lines 646-652.
AdWrite ==
    /\ pc = "write"
    /\ prog = "adaptive_main"
    /\ \E writable \in BOOLEAN :
         IF writable
         THEN /\ output_file' = Append(output_file, mesh)
              /\ console' = Say("cout", "Mesh saved to: ", 0)
              /\ exit_status' = "0"
         ELSE /\ console' = Say("cerr", "Error writing ", 0)
              /\ exit_status' = "1"
              /\ UNCHANGED output_file
    /\ pc' = "done"
    /\ UNCHANGED <<prog, probe, input, argc, argv, max_attempts, original_mesh, working_mesh,
                   mesh, ctl, ad, cli, iter, hist, measured_mesh,
                   border_at_start>>

\* ------------------------------------- the remesh command line (remesh.cpp)
\* Lines 49-62.
CliMain ==
    /\ pc = "start"
    /\ prog = "cli_main"
    /\ IF argc < 3
       THEN /\ console' = Say("cerr", "Usage: ", 0)
            /\ exit_status' = "1"
            /\ pc' = "done"
       ELSE /\ pc' = "cli_parse"
            /\ UNCHANGED <<console, exit_status>>
    /\ UNCHANGED <<prog, probe, input, argc, argv, max_attempts, original_mesh, working_mesh,
                   mesh, ctl, ad, cli, iter, output_file, hist, measured_mesh,
                   border_at_start>>

\* The arguments read at lines 67-68, with their defaults.
CliTolerance == IF argc > 3 THEN stod(Arg(3)) ELSE DDiv(Scale, 1000)
CliIterations == IF argc > 6 THEN stoi(Arg(6)) ELSE 5

\* Lines 65-68: std::stod and std::stoi throw on a text that is no number,
\* and nobody catches it.
CliParse ==
    /\ pc = "cli_parse"
    /\ IF CliTolerance = InvalidArgument \/ CliIterations = InvalidArgument
       THEN /\ exit_status' = "SIGABRT"
            /\ pc' = "done"
            /\ UNCHANGED cli
       ELSE /\ cli' = [cli EXCEPT !.tolerance = CliTolerance,
                                  !.nb_iterations = CliIterations]
            /\ pc' = "read"
            /\ UNCHANGED exit_status
    /\ UNCHANGED <<prog, probe, input, argc, argv, max_attempts, original_mesh, working_mesh,
                   mesh, ctl, ad, iter, output_file, console, hist,
                   measured_mesh, border_at_start>>

\* Lines 70-75.
CliRead ==
    /\ pc = "read"
    /\ prog = "cli_main"
    /\ \E readable \in BOOLEAN :
         IF ~readable
         THEN /\ input' = [state |-> "unreadable", mesh |-> EmptyMesh]
              /\ console' = Say("cerr", "Error: Cannot read input file ", 0)
              /\ exit_status' = "1"
              /\ pc' = "done"
              /\ UNCHANGED mesh
         ELSE /\ \E m \in FileMeshes :
                   /\ input' = [state |-> "read", mesh |-> m]
                   /\ mesh' = m
              /\ pc' = "cli_validate"
              /\ UNCHANGED <<console, exit_status>>
    /\ UNCHANGED <<prog, probe, argc, argv, max_attempts, original_mesh, working_mesh,
                   ctl, ad, cli, iter, output_file, hist, measured_mesh,
                   border_at_start>>

\* The input check of line 78.
CliInputOk(m) == is_triangle_mesh(m)

\* Lines 77-81.
CliValidate ==
    /\ pc = "cli_validate"
    /\ IF ~CliInputOk(mesh)
       THEN /\ console' = Say("cerr", "Error: Input mesh is not a valid triangle mesh.", 0)
            /\ exit_status' = "1"
            /\ pc' = "done"
       ELSE /\ pc' = "cli_bounds"
            /\ UNCHANGED <<console, exit_status>>
    /\ UNCHANGED <<prog, probe, input, argc, argv, max_attempts, original_mesh, working_mesh,
                   mesh, ctl, ad, cli, iter, output_file, hist, measured_mesh,
                   border_at_start>>

\* An upper bound that defaults to 0.5% of the diagonal.
CliEdgeMaxNarrow(bbox_diag) ==
    IF argc > 5 THEN stod(Arg(5)) ELSE DDiv(DMul(bbox_diag, 5), 1000)

\* The edge bounds of lines 85-86, with their defaults: 0.1% and 5% of the
\* bounding-box diagonal.
CliEdgeMin(bbox_diag) == IF argc > 4 THEN stod(Arg(4)) ELSE DDiv(bbox_diag, 1000)
CliEdgeMax(bbox_diag) == IF argc > 5 THEN stod(Arg(5)) ELSE DDiv(DMul(bbox_diag, 5), 100)

\* Lines 83-99.
CliBounds ==
    /\ pc = "cli_bounds"
    /\ LET bbox_diag == compute_bbox_diagonal(mesh)
       IN  IF CliEdgeMin(bbox_diag) = InvalidArgument
              \/ CliEdgeMax(bbox_diag) = InvalidArgument
           THEN /\ exit_status' = "SIGABRT"
                /\ pc' = "done"
                /\ UNCHANGED <<cli, console>>
           ELSE /\ cli' = [cli EXCEPT !.bbox_diag = bbox_diag,
                                      !.edge_min = CliEdgeMin(bbox_diag),
                                      !.edge_max = CliEdgeMax(bbox_diag)]
                /\ console' = Say("cout", "=== Adaptive Isotropic Remeshing ===", 0)
                /\ pc' = "cli_border"
                /\ UNCHANGED exit_status
    /\ UNCHANGED <<prog, probe, input, argc, argv, max_attempts, original_mesh, working_mesh,
                   mesh, ctl, ad, iter, output_file, hist, measured_mesh,
                   border_at_start>>

\* Lines 104-125: the border edges are detected; when there are some, those
\* longer than edge_max are split and the border is detected again.
CliBorder ==
    /\ pc = "cli_border"
    /\ IF border_edges_of(mesh) # {}
       THEN /\ mesh' = split_long_edges(border_edges_of(mesh), cli.edge_max, mesh)
            /\ cli' = [cli EXCEPT !.border_edges = border_edges_of(mesh'),
                                  !.has_borders = TRUE]
            /\ console' = Say("cout", "Border edges after splitting: ",
                              Cardinality(border_edges_of(mesh')))
       ELSE /\ cli' = [cli EXCEPT !.border_edges = {}, !.has_borders = FALSE]
            /\ console' = Say("cout", "No border edges detected (closed mesh)", 0)
            /\ UNCHANGED mesh
    /\ pc' = "cli_sizing"
    /\ UNCHANGED <<prog, probe, input, argc, argv, max_attempts, original_mesh, working_mesh,
                   ctl, ad, iter, output_file, exit_status, hist, measured_mesh,
                   border_at_start>>

\* Whether the remesh command line asks for the protection of constraints
\* (line 144).
CliProtects == TRUE

\* Lines 130-133: the sizing field of the only remeshing of the run.
CliSizing ==
    /\ pc = "cli_sizing"
    /\ iter' = 0
    /\ hist' = Append(hist, [attempt |-> 0,
                             edge_min |-> cli.edge_min,
                             edge_max |-> cli.edge_max,
                             tol |-> cli.tolerance,
                             relax_steps |-> CliRelaxationSteps,
                             iterations |-> 0,
                             dist |-> Unmeasured])
    /\ border_at_start' = Guarded(mesh)
    /\ console' = Say("cout", "Running adaptive isotropic remeshing...", 0)
    /\ pc' = IF cli.nb_iterations = 0 THEN "write" ELSE "cli_remesh"
    /\ UNCHANGED <<prog, probe, input, argc, argv, max_attempts, original_mesh, working_mesh,
                   mesh, ctl, ad, cli, output_file, exit_status, measured_mesh>>

\* Lines 138-149: nb_iterations iterations with the border protected.
CliRemesh ==
    /\ pc = "cli_remesh"
    /\ \E m2 \in RemeshIteration(mesh, CliProtects) : mesh' = m2
    /\ iter' = iter + 1
    /\ hist' = Logged(iter + 1, Unmeasured)
    /\ pc' = IF RemeshingDone(iter + 1, cli.nb_iterations, mesh, mesh')
             THEN "write" ELSE "cli_remesh"
    /\ UNCHANGED <<prog, probe, input, argc, argv, max_attempts, original_mesh, working_mesh,
                   ctl, ad, cli, output_file, exit_status, console,
                   measured_mesh, border_at_start>>

\* Lines 154-166.
CliWrite ==
    /\ pc = "write"
    /\ prog = "cli_main"
    /\ \E writable \in BOOLEAN :
         IF writable
         THEN /\ output_file' = Append(output_file, mesh)
              /\ console' = Say("cout", "Remeshing completed successfully!", 0)
              /\ exit_status' = "0"
         ELSE /\ console' = Say("cerr", "Error: Cannot write output file ", 0)
              /\ exit_status' = "1"
              /\ UNCHANGED output_file
    /\ pc' = "done"
    /\ UNCHANGED <<prog, probe, input, argc, argv, max_attempts, original_mesh, working_mesh,
                   mesh, ctl, ad, cli, iter, hist, measured_mesh,
                   border_at_start>>

Next ==
    \/ CtlInit \/ CtlBeginAttempt \/ CtlRemesh \/ CtlMeasure \/ CtlDecide
    \/ CtlExhausted
    \/ PmpMain \/ PmpRead \/ PmpCall \/ PmpWrite
    \/ AdMain \/ AdRead \/ AdSetup \/ AdRemeshBegin \/ AdRemesh \/ AdMeasure
    \/ AdCheck \/ AdWrite
    \/ CliMain \/ CliParse \/ CliRead \/ CliValidate \/ CliBounds \/ CliBorder
    \/ CliSizing \/ CliRemesh \/ CliWrite

Spec == Init /\ [][Next]_vars

\* ------------------------------------------------ direct function calls
\* The functions of the programs called on their own, on arguments drawn
\* from small sets: probe.args are the arguments, probe.out the results.
\* A single vertex without a face, a right triangle, and a triangle whose
\* three vertices coincide.
PointMesh == MeshOf(<<<<0, 0, 0>>>>, {})
OneTriangle ==
    MeshOf(<<<<0, 0, 0>>, <<Scale, 0, 0>>, <<0, Scale, 0>>>>, {{1, 2, 3}})
PinchedTriangle ==
    MeshOf(<<<<Scale, Scale, 0>>, <<Scale, Scale, 0>>, <<Scale, Scale, 0>>>>,
           {{1, 2, 3}})

ProbeDistances == {0, 1, Scale \div 2, Scale}
ProbeScaleFactors == {Scale \div 2, Scale, 2 * Scale}
ProbeEdgeMeshes ==
    {EmptyMesh, PointMesh, OneTriangle, PinchedTriangle, ClosedTetra, OpenTetra}
ProbeCurvedMeshes == {PointMesh, OneTriangle}
ProbeCurvatureValues == {NonFinite, 0, Scale \div 2, 2 * Scale}
ProbeDensities == {Scale \div 2, Scale, 2 * Scale, 4 * Scale}
ProbeRadii == {0, Scale \div 10, Scale, 2 * Scale, 5 * Scale}
ProbeSplitMeshes == {OneTriangle, OpenTetra, ClosedTetra}
ProbeSplitBounds == {Scale \div 5, Scale \div 2, 2 * Side}

ProbeCalls ==
    {[fn |-> "hausdorff_distance", args |-> <<dist12, dist21>>, out |-> << >>] :
        dist12 \in ProbeDistances, dist21 \in ProbeDistances}
    \cup {[fn |-> "compute_target_edge_length", args |-> <<m, f>>, out |-> << >>] :
        m \in ProbeEdgeMeshes, f \in ProbeScaleFactors}
    \cup UNION {{[fn |-> f, args |-> <<m, k>>, out |-> << >>] :
                    k \in [Verts(m) -> ProbeCurvatureValues],
                    f \in {"compute_target_length", "compute_target_length_cgal"}} :
                m \in ProbeCurvedMeshes}
    \cup {[fn |-> "edge_length_from_density", args |-> <<d1, r1, d2, r2>>,
           out |-> << >>] :
        d1 \in ProbeDensities, r1 \in ProbeRadii,
        d2 \in ProbeDensities, r2 \in ProbeRadii}
    \cup {[fn |-> "split_long_edges", args |-> <<m, L>>, out |-> << >>] :
        m \in ProbeSplitMeshes, L \in ProbeSplitBounds}

ProbeInit ==
    /\ prog = "probe"
    /\ pc = "probe"
    /\ probe \in ProbeCalls
    /\ argc = 0
    /\ argv = << >>
    /\ max_attempts = 0
    /\ original_mesh = EmptyMesh
    /\ working_mesh = EmptyMesh
    /\ mesh = EmptyMesh
    /\ ctl = CtlIdle
    /\ ad = AdIdle
    /\ cli = CliIdle
    /\ iter = 0
    /\ output_file = << >>
    /\ exit_status = "running"
    /\ console = << >>
    /\ hist = << >>
    /\ input = [state |-> "none", mesh |-> EmptyMesh]
    /\ measured_mesh = EmptyMesh
    /\ border_at_start = {}

\* What a direct call leaves alone.
ProbeFrame ==
    UNCHANGED <<prog, input, argc, argv, max_attempts, original_mesh,
                working_mesh, mesh, ctl, ad, cli, iter, output_file,
                exit_status, console, hist, measured_mesh, border_at_start>>

\* The distance each program decides on, for the two directed distances and
\* for the same two with the meshes exchanged.
ProbeDistance ==
    /\ pc = "probe"
    /\ probe.fn = "hausdorff_distance"
    /\ LET dist12 == probe.args[1]
           dist21 == probe.args[2]
       IN  probe' = [probe EXCEPT !.out =
               [controller |-> hausdorff_distance(dist12, dist21),
                controller_swapped |-> hausdorff_distance(dist21, dist12),
                adaptive |-> adaptive_distance(dist12, dist21),
                adaptive_swapped |-> adaptive_distance(dist21, dist12)]]
    /\ pc' = "done"
    /\ ProbeFrame

ProbeMeanEdge ==
    /\ pc = "probe"
    /\ probe.fn = "compute_target_edge_length"
    /\ probe' = [probe EXCEPT !.out =
           <<compute_target_edge_length(probe.args[1], probe.args[2])>>]
    /\ pc' = "done"
    /\ ProbeFrame

ProbeTargetPmp ==
    /\ pc = "probe"
    /\ probe.fn = "compute_target_length"
    /\ LET k == probe.args[2]
       IN  probe' = [probe EXCEPT !.out =
               [accepted |-> accepted_pmp(k),
                avg_k |-> avg_k_pmp(k),
                radius |-> radius_pmp(k),
                target_len |-> compute_target_length(k)]]
    /\ pc' = "done"
    /\ ProbeFrame

ProbeTargetCgal ==
    /\ pc = "probe"
    /\ probe.fn = "compute_target_length_cgal"
    /\ LET k == probe.args[2]
           diag_length == compute_bbox_diagonal(probe.args[1])
       IN  probe' = [probe EXCEPT !.out =
               [accepted |-> accepted_cgal(k),
                avg_k |-> avg_k_cgal(k),
                radius |-> radius_cgal(k, diag_length),
                target_len |-> compute_target_length_cgal(k, diag_length)]]
    /\ pc' = "done"
    /\ ProbeFrame

ProbeDensity ==
    /\ pc = "probe"
    /\ probe.fn = "edge_length_from_density"
    /\ probe' = [probe EXCEPT !.out =
           <<edge_length_from_density(probe.args[1], probe.args[2]),
             edge_length_from_density(probe.args[3], probe.args[4])>>]
    /\ pc' = "done"
    /\ ProbeFrame

\* Lines 108-121 of remesh.cpp on their own: the border edges are detected,
\* those longer than the bound are split.
ProbeSplit ==
    /\ pc = "probe"
    /\ probe.fn = "split_long_edges"
    /\ LET m == probe.args[1]
       IN  probe' = [probe EXCEPT !.out =
               <<split_long_edges(border_edges_of(m), probe.args[2], m)>>]
    /\ pc' = "probe_again"
    /\ ProbeFrame

\* The same once more, on the mesh the first call left.
ProbeSplitAgain ==
    /\ pc = "probe_again"
    /\ LET m == probe.out[1]
       IN  probe' = [probe EXCEPT !.out =
               Append(@, split_long_edges(border_edges_of(m), probe.args[2], m))]
    /\ pc' = "done"
    /\ ProbeFrame

ProbeNext ==
    \/ ProbeDistance \/ ProbeMeanEdge \/ ProbeTargetPmp \/ ProbeTargetCgal
    \/ ProbeDensity \/ ProbeSplit \/ ProbeSplitAgain

ProbeSpec == ProbeInit /\ [][ProbeNext]_vars

\* ------------------------------------------------------------ properties
\* The programs that run remesh_with_control.
CtlRuns == prog \in {"pmp_main", "remesh_with_control"}

\* x halved k times in single precision.
RECURSIVE Halved(_, _)
Halved(x, k) == IF k = 0 THEN x ELSE Halved(FloatHalf(x), k - 1)

\* The positions inside remesh_with_control.
CtlPcs == {"ctl_entry", "ctl_loop", "ctl_remesh", "ctl_measure", "ctl_decide"}

\* An upper bound of the number of steps remesh_with_control has left: five
\* per attempt not yet begun, plus what is left of the attempt under way.
CtlStepsLeft ==
    LET left == Max(max_attempts, 0) - ctl.attempt
    IN  CASE pc = "ctl_entry" -> 5 * Max(max_attempts, 0) + 2
          [] pc = "ctl_loop" -> 5 * left + 1
          [] pc = "ctl_remesh" -> 5 * (left - 1) + 3 + (ctl.iterations - iter)
          [] pc = "ctl_measure" -> 5 * (left - 1) + 3
          [] pc = "ctl_decide" -> 5 * (left - 1) + 2
          [] OTHER -> 0

\* C1: remesh_with_control never starts more than max_attempts attempts, each
\* attempt being one remeshing of at most `iterations` iterations and one
\* distance measurement (with max_attempts = 3, in the PMP program, there is
\* never a fourth attempt); and it always comes to an end: inside it a step
\* is always possible, and every step lowers the number of steps left.
C1_AtMostMaxAttempts ==
    /\ [](CtlRuns =>
            /\ Len(hist) <= Max(max_attempts, 0)
            /\ (prog = "pmp_main" => Len(hist) <= 3)
            /\ \A i \in DOMAIN hist :
                 /\ hist[i].attempt = i - 1
                 /\ hist[i].iterations <= ctl.iterations
                 /\ (i < Len(hist) => hist[i].dist # Unmeasured))
    /\ [](pc \in CtlPcs => CtlStepsLeft >= 1 /\ ENABLED Next)
    /\ [][(pc \in CtlPcs) => (CtlStepsLeft' < CtlStepsLeft)]_vars

\* Three attempts were made and the controller returned.
C1_Witness ==
    /\ prog = "pmp_main"
    /\ Len(hist) = 3
    /\ ctl.result = "false"
    /\ pc = "done"

\* C2: remesh_with_control returns true exactly at the first attempt whose
\* distance is <= dist_tolerance (the bound included): every earlier attempt
\* measured a larger distance, no attempt follows one within the tolerance,
\* the working mesh returned is the mesh that was measured, and true is
\* never returned when every attempt measured a distance above the tolerance.
C2_SuccessAtFirstAttemptWithinTolerance ==
    CtlRuns =>
        LET n == Len(hist)
        IN  /\ \A i \in 1..(n - 1) : hist[i].dist > ctl.dist_tolerance
            /\ (pc = "ctl_loop" /\ n >= 1) => hist[n].dist > ctl.dist_tolerance
            /\ ctl.result = "true" =>
                 /\ n >= 1
                 /\ hist[n].dist # Unmeasured
                 /\ hist[n].dist <= ctl.dist_tolerance
                 /\ hist[n].dist = ctl.hausdorff
                 /\ working_mesh = measured_mesh
            /\ ctl.result = "false" =>
                 \A i \in 1..n : hist[i].dist > ctl.dist_tolerance

\* The second attempt measured exactly the tolerance, and true was returned.
C2_Witness ==
    /\ CtlRuns
    /\ ctl.result = "true"
    /\ Len(hist) = 2
    /\ hist[2].dist = ctl.dist_tolerance
    /\ hist[1].dist > ctl.dist_tolerance

AttemptStarts == pc \in {"ctl_remesh", "ad_remesh"} /\ iter = 0
\* The mesh the attempts work on.
AttemptMesh == IF CtlRuns THEN working_mesh ELSE mesh
\* Between the entry of the retry logic and its end.
Retrying ==
    pc \in {"ctl_entry", "ctl_loop", "ctl_remesh", "ctl_measure", "ctl_decide",
            "ad_remesh_begin", "ad_remesh", "ad_measure", "ad_check"}

C5_ExhaustedReturnsLastAttempt ==
    (CtlRuns /\ ctl.result = "false" /\ max_attempts >= 1) =>
        LET n == Len(hist)
            T == ctl.target_edge_length
        IN  /\ n = max_attempts
            /\ hist[n].attempt = max_attempts - 1
            /\ hist[n].iterations = ctl.iterations
            /\ hist[n].dist > ctl.dist_tolerance
            /\ hist[n].edge_min = Halved(ToFloat(DDiv(T, 20)), max_attempts - 1)
            /\ hist[n].edge_max = Halved(ToFloat(DMul(T, 2)), max_attempts - 1)
            /\ working_mesh = measured_mesh

\* Three attempts failed in the PMP program.
C5_Witness ==
    /\ prog = "pmp_main"
    /\ ctl.result = "false"
    /\ max_attempts = 3
    /\ pc = "write"
    /\ ~SameSurface(working_mesh, original_mesh)

\* The programs with a command line.
Mains == {"pmp_main", "adaptive_main", "cli_main"}

\* All the attempts a program makes were made, and the last one failed too.
RetriesExhausted ==
    \/ prog = "pmp_main" /\ ctl.result = "false"
    \/ /\ prog = "adaptive_main"
       /\ Len(hist) = 2
       /\ hist[2].dist > DDiv(ad.target_length, 2)

\* Something was printed on the error stream.
Warned == \E i \in DOMAIN console : console[i].stream = "cerr"

\* C6: a run that wrote its mesh and exited 0 after all its attempts failed
\* has printed a warning, which a run with a successful attempt has not.
C6_ExhaustedRetriesAreWarned ==
    (prog \in Mains /\ pc = "done" /\ exit_status = "0" /\ RetriesExhausted)
        => Warned

\* A mesh the error taxonomy accepts as input: not empty, and triangular.
InputValid(m) == ~is_empty(m) /\ is_triangle_mesh(m)

\* C7: an executable exits with code 0 only if it had its arguments, read
\* its input, the input was a valid mesh, and the output was written.
C7_ExitZeroOnlyIfAllSucceeded ==
    (prog \in Mains /\ exit_status = "0") =>
        /\ argc >= 3
        /\ input.state = "read"
        /\ InputValid(input.mesh)
        /\ Len(output_file) = 1

\* The input file could not be read, or held an empty or a non-triangular
\* mesh.
InputRejected ==
    \/ input.state = "unreadable"
    \/ input.state = "read" /\ ~InputValid(input.mesh)

\* C8: after an unreadable, empty or non-triangular input no remeshing
\* attempt is ever started, no output is written and the exit code is not 0.
C8_InvalidInputIsFatal ==
    (prog \in Mains /\ InputRejected) =>
        /\ Len(hist) = 0
        /\ Len(output_file) = 0
        /\ exit_status # "0"

\* The remesh command line has parsed its arguments and derived its bounds.
CliConfigured ==
    prog = "cli_main" /\ pc \in {"cli_border", "cli_sizing", "cli_remesh", "write"}

\* C9: in the remesh command line, for argc from 3 to 7, tolerance is
\* argv[3] if argc > 3 and 0.001 otherwise, edge_min is argv[4] if argc > 4
\* and 0.1% of the bounding-box diagonal otherwise, edge_max is argv[5] if
\* argc > 5 and 5% of the diagonal otherwise, iterations is argv[6] if
\* argc > 6 and 5 otherwise; with both bounds defaulted edge_min <= edge_max.
C9_DefaultsWhenOmitted ==
    CliConfigured =>
        LET diag == compute_bbox_diagonal(input.mesh)
        IN  /\ argc \in 3..7
            /\ cli.bbox_diag = diag
            /\ cli.tolerance = IF argc > 3 THEN stod(argv[1]) ELSE DDiv(Scale, 1000)
            /\ cli.edge_min = IF argc > 4 THEN stod(argv[2]) ELSE DDiv(diag, 1000)
            /\ cli.edge_max = IF argc > 5 THEN stod(argv[3])
                              ELSE DDiv(DMul(diag, 5), 100)
            /\ cli.nb_iterations = IF argc > 6 THEN stoi(argv[4]) ELSE 5
            /\ argc <= 4 => cli.edge_min <= cli.edge_max

\* edge_min was given and edge_max was not, on a mesh with an extent.
C9_Witness ==
    /\ CliConfigured
    /\ argc = 5
    /\ cli.edge_min = stod(argv[2])
    /\ cli.bbox_diag > 0
    /\ cli.edge_max = DDiv(DMul(cli.bbox_diag, 5), 100)
    /\ cli.nb_iterations = 5

\* A remeshing is under way or has just ended.
Remeshing ==
    \/ pc \in {"ctl_remesh", "ctl_measure", "ad_remesh", "ad_measure", "cli_remesh"}
    \/ prog = "cli_main" /\ pc = "write"

\* C10: in every program, every border edge found when a remeshing started
\* is still a border edge, with its endpoints where they were, during and
\* after the remeshing.
C10_BorderEdgesProtected ==
    Remeshing =>
        \A g \in border_at_start :
            /\ g.edge \in border_edges_of(AttemptMesh)
            /\ {AttemptMesh.pos[v] : v \in g.edge} = g.ends

\* A direct call of fn has returned.
Probed(fn) == prog = "probe" /\ pc = "done" /\ probe.fn = fn

\* C11: in every program that decides on a retry, the distance decided on is
\* the larger of the two directed distances: it is not smaller than either
\* of them and it is the same when the two meshes are exchanged.
C11_DecisionDistanceIsBidirectional ==
    Probed("hausdorff_distance") =>
        LET dist12 == probe.args[1]
            dist21 == probe.args[2]
        IN  /\ probe.out.controller = Max(dist12, dist21)
            /\ probe.out.controller = probe.out.controller_swapped
            /\ probe.out.adaptive = Max(dist12, dist21)
            /\ probe.out.adaptive >= dist12 /\ probe.out.adaptive >= dist21
            /\ probe.out.adaptive = probe.out.adaptive_swapped

\* C12: the mean edge length is >= 0; it is 0 for a mesh without edges, and
\* for a mesh with edges it is 0 only when every edge has length zero: a
\* mesh with an edge of positive length never yields 0.
C12_MeanEdgeLengthZeroIffNoLength ==
    Probed("compute_target_edge_length") =>
        LET m == probe.args[1]
        IN  /\ probe.out[1] >= 0
            /\ Edges(m) = {} => probe.out[1] = 0
            /\ probe.out[1] = 0 <=> \A e \in Edges(m) : SqLen(m, e) = 0

\* The mean edge length of the open tetrahedron, halved.
C12_Witness ==
    /\ Probed("compute_target_edge_length")
    /\ probe.args = <<OpenTetra, Scale \div 2>>
    /\ probe.out[1] > 0

\* C12 as the specification has it: the mean edge length is >= 0 and is 0
\* if and only if the mesh has no edges.
C12_MeanEdgeLengthZeroIffNoEdges ==
    Probed("compute_target_edge_length") =>
        /\ probe.out[1] >= 0
        /\ probe.out[1] = 0 <=> Edges(probe.args[1]) = {}

\* A direct call of one of the two compute_target_length has returned.
ProbedTarget ==
    Probed("compute_target_length") \/ Probed("compute_target_length_cgal")

\* C13: in both compute_target_length, when no vertex gives a finite
\* curvature the radius is 1.0 and the target length is finite and > 0.
C13_NoSampleFallsBackToUnitRadius ==
    (ProbedTarget /\ \A v \in DOMAIN probe.args[2] : ~IsFinite(probe.args[2][v]))
        => /\ probe.out.radius = Scale
           /\ probe.out.target_len # NonFinite
           /\ probe.out.target_len > 0

C19_AverageOverFinitePositive ==
    ProbedTarget =>
        LET k == probe.args[2]
            S == {v \in DOMAIN k : IsFinite(k[v]) /\ k[v] > 0}
        IN  /\ S # {} => probe.out.avg_k = DDiv(SumOf(k, S), Cardinality(S))
            /\ probe.out.target_len # NonFinite

\* C14: edge_length_from_density does not grow when the density grows with
\* the radius fixed, and does not shrink when the radius grows with the
\* density fixed; between two different densities, or two different radii,
\* of the calls made here it changes strictly (the radius being > 0).
C14_EdgeLengthMonotone ==
    Probed("edge_length_from_density") =>
        LET d1 == probe.args[1]
            r1 == probe.args[2]
            d2 == probe.args[3]
            r2 == probe.args[4]
        IN  /\ (r1 = r2 /\ d1 <= d2) => probe.out[1] >= probe.out[2]
            /\ (d1 = d2 /\ r1 <= r2) => probe.out[1] <= probe.out[2]
            /\ (r1 = r2 /\ r1 > 0 /\ d1 < d2) => probe.out[1] > probe.out[2]
            /\ (d1 = d2 /\ r1 < r2) => probe.out[1] < probe.out[2]
            /\ probe.out[1] >= 0

\* The same radius with a larger density gave a shorter edge.
C14_Witness ==
    /\ Probed("edge_length_from_density")
    /\ probe.args[1] < probe.args[3]
    /\ probe.args[2] = probe.args[4]
    /\ probe.args[2] = Scale
    /\ probe.out[1] > probe.out[2]
    /\ probe.out[2] > 0

\* A closed mesh with at least one face: every edge has two faces.
Closed(m) ==
    /\ m.faces # {}
    /\ \A e \in Edges(m) : Cardinality(FacesAt(m, e)) = 2

\* C15: on a closed mesh with at least one face the border detection of the
\* remesh command line finds nothing; the mesh reaches the remeshing as it
\* was read, with no border recorded, and the run goes on to remesh for
\* nb_iterations iterations and to write, reporting no error but a failed
\* write.
C15_ClosedMeshHasNoBorder ==
    (prog = "cli_main" /\ input.state = "read" /\ Closed(input.mesh)) =>
        /\ border_edges_of(input.mesh) = {}
        /\ pc \in {"cli_sizing", "cli_remesh", "write"} =>
             /\ ~cli.has_borders
             /\ cli.border_edges = {}
        /\ pc = "cli_sizing" => mesh = input.mesh
        /\ Len(hist) = 1 => border_at_start = {}
        /\ (pc \in {"write", "done"} /\ Len(hist) = 1) =>
             hist[1].iterations = cli.nb_iterations
        /\ \A i \in DOMAIN console :
             console[i].stream = "cerr" =>
                 /\ console[i].text = "Error: Cannot write output file "
                 /\ exit_status = "1"
        /\ exit_status = "0" => Len(output_file) = 1 /\ output_file[1] = mesh

\* The closed tetrahedron was remeshed and written.
C15_Witness ==
    /\ prog = "cli_main"
    /\ input.mesh = ClosedTetra
    /\ pc = "done"
    /\ exit_status = "0"
    /\ hist[1].iterations >= 1
    /\ Len(output_file) = 1

\* C16: after split_long_edges on the border edges with the bound L no
\* border edge is longer than L, and the same call on the mesh it left
\* changes nothing.
C16_SplitIsIdempotent ==
    (prog = "probe" /\ probe.fn = "split_long_edges") =>
        /\ Len(probe.out) >= 1 =>
             \A e \in border_edges_of(probe.out[1]) :
                 SqLen(probe.out[1], e) <= probe.args[2] * probe.args[2]
        /\ Len(probe.out) = 2 => probe.out[2] = probe.out[1]

\* The first call split border edges of the open tetrahedron, the second
\* call has returned.
C16_Witness ==
    /\ prog = "probe"
    /\ probe.fn = "split_long_edges"
    /\ probe.args[1] = OpenTetra
    /\ Len(probe.out) = 2
    /\ Cardinality(border_edges_of(probe.out[1]))
         > Cardinality(border_edges_of(OpenTetra))

\* The target lengths compute_target_length can return on the mesh m in
\* either program.
TargetLengthsPmp(m) ==
    {compute_target_length(Curvature(p, Verts(m))) : p \in CurvatureProfiles}
TargetLengthsCgal(m) ==
    {compute_target_length_cgal(Curvature(p, Verts(m)), compute_bbox_diagonal(m)) :
        p \in CurvatureProfiles}

\* C17: the target length T is computed once, on the original mesh, and
\* does not change while the attempts run.  remesh_with_control enters its
\* loop and runs attempt 0 with the tolerance T/30, the distance tolerance
\* T/2 as a float, and the edge bounds T/20 and 2T as floats; adaptive_remesh
\* runs its first call with the tolerance T/30, the edge bounds T/50 and 5T,
\* and decides against T/2.
C17_InitialParametersByProgram ==
    /\ [](CtlRuns /\ pc \in CtlPcs \ {"ctl_entry"} =>
            LET T == ctl.target_edge_length
            IN  /\ T \in TargetLengthsPmp(original_mesh)
                /\ ctl.dist_tolerance = ToFloat(DDiv(T, 2))
                /\ (pc = "ctl_loop" /\ ctl.attempt = 0) =>
                     /\ ctl.approximation_error = DDiv(T, 30)
                     /\ ctl.min_edge_length = ToFloat(DDiv(T, 20))
                     /\ ctl.max_edge_length = ToFloat(DMul(T, 2))
                /\ Len(hist) >= 1 =>
                     /\ hist[1].attempt = 0
                     /\ hist[1].tol = DDiv(T, 30)
                     /\ hist[1].edge_min = ToFloat(DDiv(T, 20))
                     /\ hist[1].edge_max = ToFloat(DMul(T, 2)))
    /\ [](prog = "adaptive_main" /\ Len(hist) >= 1 =>
            LET T == ad.target_length
            IN  /\ T \in TargetLengthsCgal(original_mesh)
                /\ hist[1].tol = DDiv(T, 30)
                /\ hist[1].edge_min = DDiv(T, 50)
                /\ hist[1].edge_max = DMul(T, 5)
                /\ pc = "ad_check" => (AdRetries(ad) <=> ad.hausdorff_dist > DDiv(T, 2)))
    /\ [][(Retrying /\ pc # "ctl_entry") =>
            /\ ctl'.target_edge_length = ctl.target_edge_length
            /\ ad'.target_length = ad.target_length]_vars

\* Attempt 0 of remesh_with_control is about to remesh with bounds derived
\* from a finite positive target length.
C17_Witness ==
    /\ CtlRuns
    /\ pc = "ctl_remesh"
    /\ iter = 0
    /\ Len(hist) = 1
    /\ ctl.target_edge_length > 0
    /\ hist[1].edge_min > 0
    /\ hist[1].edge_max > hist[1].edge_min

\* C17 as the specification has it: attempt 0 of every retrying program
\* runs with the tolerance T/30 and the edge bounds T/20 and 2T.
C17_InitialParametersEverywhere ==
    /\ (CtlRuns /\ Len(hist) >= 1) =>
         /\ hist[1].tol = DDiv(ctl.target_edge_length, 30)
         /\ hist[1].edge_min = ToFloat(DDiv(ctl.target_edge_length, 20))
         /\ hist[1].edge_max = ToFloat(DMul(ctl.target_edge_length, 2))
    /\ (prog = "adaptive_main" /\ Len(hist) >= 1) =>
         /\ hist[1].tol = DDiv(ad.target_length, 30)
         /\ hist[1].edge_min = DDiv(ad.target_length, 20)
         /\ hist[1].edge_max = DMul(ad.target_length, 2)

\* C20: every attempt of remesh_with_control first splits the border edges
\* of the working copy that are longer than the attempt's edge_max, so that
\* its remeshing starts with no border edge over that bound; it measures
\* the distance after the remeshing has run its iterations, and decides on a
\* measured distance.
C20_AttemptRunsBorderStepFirst ==
    (CtlRuns /\ pc \in {"ctl_remesh", "ctl_measure", "ctl_decide"}) =>
        LET now == hist[Len(hist)]
        IN  /\ (pc = "ctl_remesh" /\ iter = 0 /\ now.edge_max # NonFinite) =>
                 \A e \in border_edges_of(working_mesh) :
                     SqLen(working_mesh, e) <= now.edge_max * now.edge_max
            /\ pc = "ctl_measure" => now.iterations = ctl.iterations
            /\ pc = "ctl_decide" => now.dist # Unmeasured

\* C21: a remeshing ends after exactly the number of iterations asked
\* for, whatever the iterations made of the mesh: 2 in every attempt of
\* remesh_with_control, 4 (with 4 relaxation steps) in every call of
\* adaptive_remesh, nb_iterations (with 3 relaxation steps) in the remesh
\* command line; while it runs fewer iterations have been made, and no
\* step ends it or keeps it going on account of the mesh.
C21_IterationCountEndsRemeshing ==
    /\ [](pc = "ctl_remesh" => iter < 2 /\ ctl.iterations = 2)
    /\ [](pc \in {"ctl_measure", "ctl_decide"} =>
            iter = 2 /\ hist[Len(hist)].iterations = 2)
    /\ [](pc = "ad_remesh" =>
            iter < 4 /\ hist[Len(hist)].relax_steps = 4)
    /\ [](pc \in {"ad_measure", "ad_check"} =>
            iter = 4 /\ hist[Len(hist)].iterations = 4)
    /\ [](pc = "cli_remesh" =>
            iter < cli.nb_iterations /\ hist[Len(hist)].relax_steps = 3)
    /\ [](prog = "cli_main" /\ pc = "write" =>
            iter = cli.nb_iterations /\ hist[Len(hist)].iterations = cli.nb_iterations)
    /\ [][(pc \in {"ctl_remesh", "ad_remesh", "cli_remesh"} /\ pc' # "done") =>
            /\ iter' = iter + 1
            /\ pc' = pc <=> iter' < (CASE pc = "ctl_remesh" -> 2
                                       [] pc = "ad_remesh" -> 4
                                       [] OTHER -> cli.nb_iterations)]_vars

\* The remesh command line goes on remeshing after iterations that left
\* the mesh as it was read.
C21_Witness ==
    /\ prog = "cli_main"
    /\ pc = "cli_remesh"
    /\ iter >= 2
    /\ cli.nb_iterations = 5
    /\ mesh = input.mesh

\* The number of iterations a remeshing of the running program makes.
IterationsAsked ==
    CASE CtlRuns -> 2
      [] prog = "adaptive_main" -> 4
      [] OTHER -> cli.nb_iterations

\* C22: a run writes its output file at most once, as its last step, after
\* the last attempt it makes has run all its iterations (and, where the
\* program measures, has been measured); what it writes is the mesh that
\* attempt left, never the mesh of an attempt that was retried nor a mesh
\* on which the remeshing has not run.
C22_WritesOnceAfterLastAttempt ==
    /\ [](Len(output_file) <= 1)
    /\ [](Len(output_file) = 1 =>
            /\ pc = "done"
            /\ exit_status = "0"
            /\ Len(hist) >= 1
            /\ hist[Len(hist)].iterations = IterationsAsked
            /\ output_file[1] = AttemptMesh
            /\ prog \in {"pmp_main", "adaptive_main"} =>
                 /\ output_file[1] = measured_mesh
                 /\ hist[Len(hist)].dist # Unmeasured)
    /\ [][(output_file' # output_file) =>
            /\ pc = "write"
            /\ pc' = "done"
            /\ output_file' = <<AttemptMesh>>
            /\ UNCHANGED <<hist, iter, mesh, working_mesh>>]_vars
    /\ [][(pc = "done") => UNCHANGED vars]_vars

\* The PMP program has written the result of its third attempt, after two
\* attempts that were retried.
C22_Witness ==
    /\ prog = "pmp_main"
    /\ pc = "done"
    /\ Len(output_file) = 1
    /\ Len(hist) = 3
    /\ ~SameSurface(output_file[1], original_mesh)

\* C23: in remesh_with_control the attempts follow one another: they are
\* numbered 0, 1, 2, ... in the order they start; when an attempt starts,
\* every earlier attempt has run its iterations, has been measured, and
\* its distance was above dist_tolerance; after a distance within the
\* tolerance the function has returned true and no attempt starts.
C23_AttemptsAreSequential ==
    /\ [](CtlRuns =>
            /\ \A i \in DOMAIN hist : hist[i].attempt = i - 1
            /\ \A i \in 1..(Len(hist) - 1) :
                 /\ hist[i].iterations = ctl.iterations
                 /\ hist[i].dist # Unmeasured
                 /\ hist[i].dist > ctl.dist_tolerance
            /\ pc \in {"ctl_remesh", "ctl_measure", "ctl_decide"} =>
                 ctl.attempt = Len(hist) - 1
            /\ ctl.result = "true" =>
                 /\ pc \notin CtlPcs
                 /\ hist[Len(hist)].dist # Unmeasured
                 /\ hist[Len(hist)].dist <= ctl.dist_tolerance)
    /\ [][(CtlRuns /\ Len(hist') > Len(hist)) =>
            /\ pc = "ctl_loop"
            /\ pc' = "ctl_remesh"
            /\ ctl.result = "pending"
            /\ Len(hist') = Len(hist) + 1
            /\ Len(hist) >= 1 => hist[Len(hist)].dist > ctl.dist_tolerance]_vars
    /\ [][(CtlRuns /\ ctl.result = "true") => hist' = hist]_vars

\* A second attempt is under way, after a first one that was measured
\* above the tolerance.
C23_Witness ==
    /\ CtlRuns
    /\ pc = "ctl_remesh"
    /\ iter = 1
    /\ Len(hist) = 2
    /\ hist[1].dist > ctl.dist_tolerance

\* C24: adaptive_remesh makes at most two attempts; it makes the second
\* one, from a copy of the original mesh and with the tolerance halved,
\* exactly when the distance of the first exceeds the target length; the
\* mesh it saves is the one its last attempt left.
C24_AdaptiveRetriesOnceOverTarget ==
    prog = "adaptive_main" =>
        /\ Len(hist) <= 2
        /\ Len(hist) = 2 =>
             /\ hist[1].dist # Unmeasured
             /\ hist[1].dist > ad.target_length
             /\ hist[2].tol = DDiv(hist[1].tol, 2)
             /\ (pc = "ad_remesh" /\ iter = 0) => SameSurface(mesh, original_mesh)
        /\ (Len(hist) = 1 /\ pc \in {"write", "done"}) =>
             ~(hist[1].dist > ad.target_length)
        /\ Len(output_file) = 1 => output_file[1] = measured_mesh

\* C25: in remesh_with_control with a positive target length every attempt
\* runs with 0 < edge_min <= edge_max and with edge_max = 40 edge_min,
\* however many attempts have failed before it.
C25_EdgeBoundsKeepRatio ==
    (CtlRuns /\ ctl.target_edge_length > 0) =>
        \A i \in DOMAIN hist :
            /\ 0 < hist[i].edge_min
            /\ hist[i].edge_min <= hist[i].edge_max
            /\ hist[i].edge_max = 40 * hist[i].edge_min

\* C26: remesh_with_control called with max_attempts <= 0 makes no attempt
\* and returns false; no step of the call changes the working mesh of the
\* caller, which is never given the surface of the original mesh.
C26_NoAttemptLeavesWorkingMesh ==
    /\ []((prog = "remesh_with_control" /\ max_attempts <= 0) =>
            /\ hist = << >>
            /\ iter = 0
            /\ pc \notin {"ctl_remesh", "ctl_measure", "ctl_decide"}
            /\ ctl.result # "true"
            /\ pc = "done" => ctl.result = "false"
            /\ measured_mesh = EmptyMesh
            /\ ~SameSurface(working_mesh, original_mesh))
    /\ [][(prog = "remesh_with_control" /\ max_attempts <= 0) =>
            working_mesh' = working_mesh]_vars

\* The call with max_attempts = 0 has returned false and the caller still
\* holds the quadrilateral it passed in.
C26_Witness ==
    /\ prog = "remesh_with_control"
    /\ max_attempts = 0
    /\ pc = "done"
    /\ ctl.result = "false"
    /\ working_mesh = QuadFace

=============================================================================
